---- MODULE Spec2Model ----
(***************************************************************************)
(* Model of agent/__init__.py: the Agent orchestrator in four-module mode. *)
(* Each Agent instance owns a context dict (the belief state); step()      *)
(* resolves the frame, calls the four stages in turn, writes their results *)
(* into the context as they arrive, normalises the action result, appends  *)
(* it to the bounded deque and returns a dict, or returns None when        *)
(* anything inside the try block raises.                                   *)
(*                                                                         *)
(* Python values are tagged records ([kind |-> ...]); Python strings are   *)
(* sequences of one-character strings so that split and strip are          *)
(* computed; dicts are functions whose domain is the set of keys present.  *)
(***************************************************************************)
EXTENDS Integers, Sequences, FiniteSets, TLC

VARIABLES
    context,    \* context[a]: self.context of instance a
    pc,         \* pc[a]: where instance a's step() stands ("idle" = not in a call)
    locals,     \* locals[a]: the local variables of the running step() call
    ret,        \* ret[a]: what the last step() call of a returned
    pre,        \* pre[a]: self.context of a as it was when the current/last call began
    log         \* log[a]: the stage invocations of the current/last call, with arguments

vars == <<context, pc, locals, ret, pre, log>>

----------------------------------------------------------------------------
(* Bounds of the model *)

\* step() is not called once step_counter has reached MaxSteps
MaxSteps == 2
\* longest action string enumerated by NormSpec
MaxStrLen == 4
\* longest token list enumerated by NormSpec
MaxListLen == 2
\* committed ticks in SnapSpec
InputSteps == 1
\* committed ticks of each instance in MultiSpec
MultiSteps == 1

----------------------------------------------------------------------------
(* Python values *)

None == [kind |-> "None"]
Unset == [kind |-> "unset"]
NoCall == [kind |-> "nocall"]
Image(i) == [kind |-> "image", id |-> i]
PyStr(cs) == [kind |-> "str", chars |-> cs]
PyList(es) == [kind |-> "list", elems |-> es]
PyTuple(es) == [kind |-> "tuple", elems |-> es]
PyInt(n) == [kind |-> "int", val |-> n]
PyDict(f) == [kind |-> "dict", items |-> f]
Opaque(k, i) == [kind |-> k, id |-> i]
Text(t) == [kind |-> "text", text |-> t]
Repr(v) == [kind |-> "repr", of |-> v]

EmptyDict == [k \in {} |-> None]

\* d.get(k, default) on a dict d
Get(d, k, default) == IF k \in DOMAIN d THEN d[k] ELSE default

\* truth value of a Python value, as `or` tests it
Truthy(v) ==
    CASE v.kind = "None" -> FALSE
      [] v.kind = "str" -> v.chars # <<>>
      [] v.kind = "list" -> v.elems # <<>>
      [] v.kind = "int" -> v.val # 0
      [] v.kind = "dict" -> DOMAIN v.items # {}
      [] OTHER -> TRUE

\* deque(maxlen=25)
RecentCap == 25

----------------------------------------------------------------------------
(* Action-result normalisation (step(), lines 123-128) *)

Whitespace == {" ", "\t", "\n"}

\* index of the first "," of cs, 0 when there is none
RECURSIVE FirstComma(_, _)
FirstComma(cs, i) ==
    IF i > Len(cs) THEN 0
    ELSE IF cs[i] = "," THEN i
    ELSE FirstComma(cs, i + 1)

\* cs.split(","): the pieces between commas, empty pieces included
RECURSIVE Split(_)
Split(cs) ==
    LET i == FirstComma(cs, 1) IN
    IF i = 0 THEN <<cs>>
    ELSE <<SubSeq(cs, 1, i - 1)>> \o Split(SubSeq(cs, i + 1, Len(cs)))

RECURSIVE LStrip(_)
LStrip(cs) ==
    IF cs # <<>> /\ cs[1] \in Whitespace THEN LStrip(Tail(cs)) ELSE cs

RECURSIVE RStrip(_)
RStrip(cs) ==
    IF cs # <<>> /\ cs[Len(cs)] \in Whitespace
    THEN RStrip(SubSeq(cs, 1, Len(cs) - 1)) ELSE cs

\* a strip of the left end only
StripLeft(cs) == LStrip(cs)

\* btn.strip()
Strip(cs) == LStrip(RStrip(cs))

\* [btn.strip() for btn in actions.split(",") if btn.strip()]
SplitButtons(cs) ==
    LET pieces == Split(cs)
        stripped == [i \in 1..Len(pieces) |-> Strip(pieces[i])]
    IN SelectSeq(stripped, LAMBDA b : b # <<>>)

\* list(actions) raises TypeError on a value that is not iterable
ListRaises(v) == v.kind \notin {"list", "tuple", "str"}

\* the if / elif / else of lines 123-128, for a result on which it does not raise
Normalize(actions) ==
    CASE actions.kind = "None" -> <<>>
      [] actions.kind = "str" -> SplitButtons(actions.chars)
      [] OTHER -> actions.elems

NormalizeRaises(actions) ==
    actions.kind \notin {"None", "str"} /\ ListRaises(actions)

----------------------------------------------------------------------------
(* The bounded deque (lines 51, 130-131) *)

\* an append that drops the new element when the deque is full
DequeAppendDropNewest(d, x) ==
    IF Len(d) >= RecentCap THEN d ELSE Append(d, x)

\* an append that never evicts
DequeAppendUnbounded(d, x) == Append(d, x)

\* deque(maxlen=25).append(x): a full deque drops its leftmost element
DequeAppend(d, x) ==
    IF Len(d) >= RecentCap THEN Tail(d) \o <<x>> ELSE Append(d, x)

\* for action in actions: self.context["recent_actions"].append(action)
RECURSIVE AppendAll(_, _)
AppendAll(d, actions) ==
    IF actions = <<>> THEN d
    ELSE AppendAll(DequeAppend(d, Head(actions)), Tail(actions))

----------------------------------------------------------------------------
(* Snapshots: the game_state argument of step() *)

OptionalKeys == {"frame", "visual", "game_state", "audio", "progress", "step_number"}

\* the values a key may hold when it is present
KeyValues(k) ==
    CASE k = "frame" -> {None, PyStr(<<>>), Image(1)}
      [] k = "visual" -> {None, PyStr(<<"x">>), PyDict(EmptyDict),
                          PyDict([screenshot |-> Image(2)])}
      [] k = "step_number" -> {PyInt(7)}
      [] OTHER -> {Opaque(k, 1)}

AllValues == UNION {KeyValues(k) : k \in OptionalKeys}

\* every mapping over every subset of the optional keys
AllSnapshots ==
    UNION {{gs \in [S -> AllValues] : \A k \in S : gs[k] \in KeyValues(k)} :
           S \in SUBSET OptionalKeys}

FullSnapshot ==
    [frame |-> Image(1), visual |-> PyDict([screenshot |-> Image(2)]),
     game_state |-> Opaque("game_state", 1), audio |-> Opaque("audio", 1),
     progress |-> Opaque("progress", 1), step_number |-> PyInt(7)]

\* the snapshots of the main specification
Snapshots == {FullSnapshot, EmptyDict, [visual |-> None]}

----------------------------------------------------------------------------
(* What the four stages (external collaborators) may return *)

\* perception_step returns (observation_dict, slow_thinking_needed)
Observations == {[description |-> Text("d")], [scene |-> Text("s")]}

\* memory_step returns the new memory context; nothing in step() looks at it,
\* None included
Memories == {None, Text("m1"), Text("m2")}

\* planning_step returns a plan; returning the plan it was given is one case
Plans == {None, Opaque("plan", 1), Opaque("plan", 2)}

Digit(n) == <<"0", "1", "2", "3", "4", "5", "6", "7", "8", "9">>[n + 1]

\* a list of RecentCap + 1 distinct two-character tokens "01", "02", ...
LongList == PyList([i \in 1..(RecentCap + 1) |-> <<Digit(i \div 10), Digit(i % 10)>>])

\* action_step results of the main specification
ActionResults ==
    { None,
      PyStr(<<>>),
      PyStr(<<"A", ",", " ", "B", " ", ",", "C">>),
      PyStr(<<"L", "E", "F", "T">>),
      PyList(<<<<"U", "P">>, <<"U", "P">>>>),
      PyList(<<<<"A", ",", "B">>>>),
      PyInt(5),
      LongList }

----------------------------------------------------------------------------
(* Agent.__init__, four-module mode (lines 48-54) *)

InitialContext ==
    [memory_context |-> Text("Initialized memory context"),
     current_plan |-> None,
     recent_actions |-> <<>>,
     last_observation |-> None,
     step_counter |-> 0]

NoLocals ==
    [frame |-> Unset, state_data |-> Unset, observation_dict |-> Unset,
     observation_text |-> Unset, slow_thinking_needed |-> Unset,
     observation_entry |-> Unset, memory_context |-> Unset,
     current_plan |-> Unset]

\* one dict shared by every instance, as a class attribute would be
ContextOfShared(a) == 1

\* lines 48-54: __init__ binds self.context to a new dict with a new deque, so
\* instance a reads and writes the dict that is its own
ContextOf(a) == a

InitOver(agents) ==
    /\ context = [a \in agents |-> InitialContext]
    /\ pc = [a \in agents |-> "idle"]
    /\ locals = [a \in agents |-> NoLocals]
    /\ ret = [a \in agents |-> NoCall]
    /\ pre = [a \in agents |-> InitialContext]
    /\ log = [a \in agents |-> <<>>]


----------------------------------------------------------------------------
(* Agent.step, four-module mode (lines 77-144) *)

Stages == {"perception", "memory", "planning", "action"}

Event(ev, stage, val) == [ev |-> ev, stage |-> stage, val |-> val]

\* a lookup game_state["visual"] that also raises on a missing key
ResolveRaisesOnMissing(game_state) ==
    /\ ~Truthy(Get(game_state, "frame", None))
    /\ Get(game_state, "visual", None).kind # "dict"

\* line 78 raises AttributeError when .get is applied to a "visual" value
\* that is not a dict; `or` evaluates its right operand only when the left is falsy
ResolveRaises(game_state) ==
    /\ ~Truthy(Get(game_state, "frame", None))
    /\ Get(game_state, "visual", PyDict(EmptyDict)).kind # "dict"

\* a resolution that prefers the screenshot under visual
ResolveFramePreferScreenshot(game_state) ==
    LET shot == Get(Get(game_state, "visual", PyDict(EmptyDict)).items,
                    "screenshot", None)
    IN IF Truthy(shot) THEN shot ELSE Get(game_state, "frame", None)

\* line 78: game_state.get("frame") or game_state.get("visual", {}).get("screenshot")
ResolveFrame(game_state) ==
    LET top == Get(game_state, "frame", None) IN
    IF Truthy(top) THEN top
    ELSE Get(Get(game_state, "visual", PyDict(EmptyDict)).items, "screenshot", None)

\* line 79: {k: v for k, v in game_state.items() if k != "frame"}
StateData(game_state) ==
    [k \in DOMAIN game_state \ {"frame"} |-> game_state[k]]

\* line 83: observation_dict.get("description", str(observation_dict))
ObservationText(observation_dict) ==
    Get(observation_dict, "description", Repr(observation_dict))

\* the observation is not written until the tick commits
StoreObservationSkip(ctx, observation_dict) == ctx

\* line 84: self.context["last_observation"] = observation_dict
StoreObservation(ctx, observation_dict) ==
    [ctx EXCEPT !.last_observation = observation_dict]

\* an entry numbered with the counter this tick will reach
ObservationEntryNextCounter(ctx, state_data, observation_text) ==
    [frame_id |-> Get(state_data, "step_number", PyInt(ctx.step_counter + 1)),
     observation |-> observation_text,
     state |-> state_data]

\* lines 87-91: the observation entry handed to memory_step
ObservationEntry(ctx, state_data, observation_text) ==
    [frame_id |-> Get(state_data, "step_number", PyInt(ctx.step_counter)),
     observation |-> observation_text,
     state |-> state_data]

\* lines 92-98: the arguments of memory_step (self.vlm left out)
MemoryArgs(ctx, observation_entry) ==
    <<ctx.memory_context, ctx.current_plan, ctx.recent_actions, <<observation_entry>>>>

\* line 99: self.context["memory_context"] = memory_context
StoreMemory(ctx, memory_context) ==
    [ctx EXCEPT !.memory_context = memory_context]

\* planning_step called without the current plan
PlanningArgsNoPlan(ctx, memory_context, slow_thinking_needed, state_data) ==
    <<memory_context, None, slow_thinking_needed, state_data>>

\* lines 102-108: the arguments of planning_step
PlanningArgs(ctx, memory_context, slow_thinking_needed, state_data) ==
    <<memory_context, ctx.current_plan, slow_thinking_needed, state_data>>

\* a store that keeps the old plan when the stage returns None
StorePlanUnlessNone(ctx, current_plan) ==
    IF current_plan = None THEN ctx ELSE [ctx EXCEPT !.current_plan = current_plan]

\* line 109: self.context["current_plan"] = current_plan
StorePlan(ctx, current_plan) ==
    [ctx EXCEPT !.current_plan = current_plan]

\* action_step called with plan and memory in each other's place
ActionArgsSwapped(ctx, loc, current_plan) ==
    <<current_plan, loc.memory_context, loc.observation_text, loc.frame,
      loc.state_data, ctx.recent_actions>>

\* lines 112-121: the arguments of action_step
ActionArgs(ctx, loc, current_plan) ==
    <<loc.memory_context, current_plan, loc.observation_text, loc.frame,
      loc.state_data, ctx.recent_actions>>

\* a commit that forgets the counter
CommitNoCount(ctx, actions) ==
    [ctx EXCEPT !.recent_actions = AppendAll(@, actions)]

\* lines 130-133: the tokens go into the deque, then the counter advances
Commit(ctx, actions) ==
    [ctx EXCEPT !.recent_actions = AppendAll(@, actions),
                !.step_counter = @ + 1]

\* a returned dict whose action holds only what fits the deque
DecisionTruncated(actions, observation_dict, current_plan, memory_context) ==
    PyDict([action |-> IF Len(actions) <= RecentCap THEN actions
                       ELSE SubSeq(actions, Len(actions) - RecentCap + 1, Len(actions)),
            observation |-> observation_dict,
            plan |-> current_plan,
            memory_context |-> memory_context])

\* a returned dict that lacks memory_context
DecisionPartial(actions, observation_dict, current_plan, memory_context) ==
    PyDict([action |-> actions,
            observation |-> observation_dict,
            plan |-> current_plan])

\* lines 135-140: the dict step() returns
Decision(actions, observation_dict, current_plan, memory_context) ==
    PyDict([action |-> actions,
            observation |-> observation_dict,
            plan |-> current_plan,
            memory_context |-> memory_context])

\* an except clause inside the tick: the failure is swallowed and the next stage
\* is called
ReturnNoneContinue(a, events) ==
    /\ log' = [log EXCEPT ![a] = @ \o events]
    /\ pc' = [pc EXCEPT ![a] =
           CASE @ = "perception" -> "memory"
             [] @ = "memory" -> "planning"
             [] @ = "planning" -> "action"
             [] OTHER -> "idle"]
    /\ ret' = [ret EXCEPT ![a] = IF pc[a] = "action" THEN None ELSE @]
    /\ UNCHANGED locals

\* lines 142-144: the except clause returns None; nothing is undone
ReturnNone(a, events) ==
    /\ log' = [log EXCEPT ![a] = @ \o events]
    /\ ret' = [ret EXCEPT ![a] = None]
    /\ pc' = [pc EXCEPT ![a] = "idle"]
    /\ locals' = [locals EXCEPT ![a] = NoLocals]

\* step(game_state) is called: lines 77-79, up to the call of perception_step (line 82)
StepCall(a, game_state) ==
    /\ pc[a] = "idle"
    /\ pre' = [pre EXCEPT ![a] = context[ContextOf(a)]]
    /\ IF ResolveRaises(game_state)
       THEN /\ log' = [log EXCEPT ![a] = <<Event("call", "step", game_state),
                                            Event("raise", "resolve", None)>>]
            /\ ret' = [ret EXCEPT ![a] = None]
            /\ UNCHANGED <<pc, locals>>
       ELSE LET frame == ResolveFrame(game_state)
                state_data == StateData(game_state)
            IN /\ locals' = [locals EXCEPT ![a] =
                     [NoLocals EXCEPT !.frame = frame, !.state_data = state_data]]
               /\ log' = [log EXCEPT ![a] = <<Event("call", "step", game_state),
                              Event("call", "perception", <<frame, state_data>>)>>]
               /\ ret' = [ret EXCEPT ![a] = Unset]
               /\ pc' = [pc EXCEPT ![a] = "perception"]
    /\ UNCHANGED context

\* perception_step returns: lines 82-91, up to the call of memory_step (line 92)
PerceptionReturns(a, observation_dict, slow_thinking_needed) ==
    /\ pc[a] = "perception"
    /\ LET observation_text == ObservationText(observation_dict)
           ctx == StoreObservation(context[ContextOf(a)], observation_dict)
           observation_entry ==
               ObservationEntry(ctx, locals[a].state_data, observation_text)
       IN /\ context' = [context EXCEPT ![ContextOf(a)] = ctx]
          /\ locals' = [locals EXCEPT ![a].observation_dict = observation_dict,
                                      ![a].observation_text = observation_text,
                                      ![a].slow_thinking_needed = slow_thinking_needed,
                                      ![a].observation_entry = observation_entry]
          /\ log' = [log EXCEPT ![a] = @ \o
                 <<Event("return", "perception",
                         <<observation_dict, slow_thinking_needed>>),
                   Event("call", "memory", MemoryArgs(ctx, observation_entry))>>]
    /\ pc' = [pc EXCEPT ![a] = "memory"]
    /\ UNCHANGED <<ret, pre>>

\* memory_step returns: lines 92-99, up to the call of planning_step (line 102)
MemoryReturns(a, memory_context) ==
    /\ pc[a] = "memory"
    /\ LET ctx == StoreMemory(context[ContextOf(a)], memory_context)
       IN /\ context' = [context EXCEPT ![ContextOf(a)] = ctx]
          /\ locals' = [locals EXCEPT ![a].memory_context = memory_context]
          /\ log' = [log EXCEPT ![a] = @ \o
                 <<Event("return", "memory", memory_context),
                   Event("call", "planning",
                         PlanningArgs(ctx, memory_context,
                                      locals[a].slow_thinking_needed,
                                      locals[a].state_data))>>]
    /\ pc' = [pc EXCEPT ![a] = "planning"]
    /\ UNCHANGED <<ret, pre>>

\* planning_step returns: lines 102-112, up to the call of action_step (line 113)
PlanningReturns(a, current_plan) ==
    /\ pc[a] = "planning"
    /\ LET ctx == StorePlan(context[ContextOf(a)], current_plan)
       IN /\ context' = [context EXCEPT ![ContextOf(a)] = ctx]
          /\ locals' = [locals EXCEPT ![a].current_plan = current_plan]
          /\ log' = [log EXCEPT ![a] = @ \o
                 <<Event("return", "planning", current_plan),
                   Event("call", "action", ActionArgs(ctx, locals[a], current_plan))>>]
    /\ pc' = [pc EXCEPT ![a] = "action"]
    /\ UNCHANGED <<ret, pre>>

\* action_step returns: lines 113-140, to the return of step()
ActionReturns(a, raw) ==
    /\ pc[a] = "action"
    /\ IF NormalizeRaises(raw)
       THEN /\ ReturnNone(a, <<Event("return", "action", raw),
                               Event("raise", "normalize", None)>>)
            /\ UNCHANGED context
       ELSE LET actions == Normalize(raw) IN
            /\ context' = [context EXCEPT ![ContextOf(a)] = Commit(@, actions)]
            /\ log' = [log EXCEPT ![a] = Append(@, Event("return", "action", raw))]
            /\ ret' = [ret EXCEPT ![a] =
                   Decision(actions, locals[a].observation_dict,
                            locals[a].current_plan, locals[a].memory_context)]
            /\ pc' = [pc EXCEPT ![a] = "idle"]
            /\ locals' = [locals EXCEPT ![a] = NoLocals]
    /\ UNCHANGED pre

\* a stage raises an Exception: control passes to the except clause (lines 142-144)
PerceptionRaises(a) ==
    /\ pc[a] = "perception"
    /\ ReturnNone(a, <<Event("raise", "perception", None)>>)
    /\ UNCHANGED <<context, pre>>

MemoryRaises(a) ==
    /\ pc[a] = "memory"
    /\ ReturnNone(a, <<Event("raise", "memory", None)>>)
    /\ UNCHANGED <<context, pre>>

PlanningRaises(a) ==
    /\ pc[a] = "planning"
    /\ ReturnNone(a, <<Event("raise", "planning", None)>>)
    /\ UNCHANGED <<context, pre>>

ActionRaises(a) ==
    /\ pc[a] = "action"
    /\ ReturnNone(a, <<Event("raise", "action", None)>>)
    /\ UNCHANGED <<context, pre>>

----------------------------------------------------------------------------
(* The main specification: one Agent instance, a few snapshots, every stage *)
(* outcome, at most MaxSteps committed ticks                                *)

Agents == {1}

Begin(a) == \E game_state \in Snapshots :
    context[ContextOf(a)].step_counter < MaxSteps /\ StepCall(a, game_state)

Perceive(a) == \E o \in Observations, s \in BOOLEAN : PerceptionReturns(a, o, s)

Remember(a) == \E m \in Memories : MemoryReturns(a, m)

Plan(a) == \E p \in Plans : PlanningReturns(a, p)

Act(a) == \E r \in ActionResults : ActionReturns(a, r)

Next ==
    \/ \E a \in Agents : Begin(a)
    \/ \E a \in Agents : Perceive(a)
    \/ \E a \in Agents : PerceptionRaises(a)
    \/ \E a \in Agents : Remember(a)
    \/ \E a \in Agents : MemoryRaises(a)
    \/ \E a \in Agents : Plan(a)
    \/ \E a \in Agents : PlanningRaises(a)
    \/ \E a \in Agents : Act(a)
    \/ \E a \in Agents : ActionRaises(a)

Init == InitOver(Agents)

Spec == Init /\ [][Next]_vars

----------------------------------------------------------------------------
(* NormSpec: the first tick, on an empty snapshot, the action stage returning  *)
(* every string over a small alphabet and every short list or tuple of tokens *)

SeqsUpTo(S, n) == UNION {[1..k -> S] : k \in 0..n}

NormAlphabet == {"A", "B", ",", " "}

\* list elements are taken as they are: with commas, blanks, or empty
NormTokens == {<<>>, <<"A">>, <<"A", ",", "B">>, <<" ", "B", " ">>}

SpecExample == PyStr(<<"A", ",", " ", "B", " ", ",", "C">>)

NormResults ==
    {None, SpecExample}
    \cup {PyStr(cs) : cs \in SeqsUpTo(NormAlphabet, MaxStrLen)}
    \cup {PyList(es) : es \in SeqsUpTo(NormTokens, MaxListLen)}
    \cup {PyTuple(es) : es \in SeqsUpTo(NormTokens, MaxListLen)}

\* the first tick of a fresh Agent
NormBegin(a) ==
    context[ContextOf(a)].step_counter = 0 /\ StepCall(a, EmptyDict)

NormPerceive(a) == PerceptionReturns(a, [description |-> Text("d")], FALSE)

NormRemember(a) == MemoryReturns(a, Text("m1"))

NormPlan(a) == PlanningReturns(a, Opaque("plan", 1))

NormAct(a) == \E r \in NormResults : ActionReturns(a, r)

NormNext ==
    \/ \E a \in Agents : NormBegin(a)
    \/ \E a \in Agents : NormPerceive(a)
    \/ \E a \in Agents : NormRemember(a)
    \/ \E a \in Agents : NormPlan(a)
    \/ \E a \in Agents : NormAct(a)

NormSpec == Init /\ [][NormNext]_vars

----------------------------------------------------------------------------
(* SnapSpec: ticks on every snapshot over every subset of the optional keys,   *)
(* every stage returning                                                      *)

SnapResults == {None, PyList(<<<<"U", "P">>, <<"U", "P">>>>)}

SnapBegin(a) == \E game_state \in AllSnapshots :
    context[ContextOf(a)].step_counter < InputSteps /\ StepCall(a, game_state)

SnapPerceive(a) == \E o \in Observations : PerceptionReturns(a, o, FALSE)

SnapRemember(a) == MemoryReturns(a, Text("m1"))

SnapAct(a) == \E r \in SnapResults : ActionReturns(a, r)

SnapNext ==
    \/ \E a \in Agents : SnapBegin(a)
    \/ \E a \in Agents : SnapPerceive(a)
    \/ \E a \in Agents : SnapRemember(a)
    \/ \E a \in Agents : Plan(a)
    \/ \E a \in Agents : SnapAct(a)

SnapSpec == Init /\ [][SnapNext]_vars

----------------------------------------------------------------------------
(* Reading the record of a call *)

\* a step() call of a has returned
Returned(a) == pc[a] = "idle" /\ log[a] # <<>>

HasEvent(a, ev, stage) ==
    \E i \in DOMAIN log[a] : log[a][i].ev = ev /\ log[a][i].stage = stage

ValueOf(a, ev, stage) ==
    log[a][CHOOSE i \in DOMAIN log[a] : log[a][i].ev = ev /\ log[a][i].stage = stage].val

\* some stage of the call raised
StageRaised(a) == \E st \in Stages : HasEvent(a, "raise", st)

\* all four stages of the call returned
AllStagesReturned(a) == \A st \in Stages : HasEvent(a, "return", st)

IsDecision(v) == v.kind = "dict"

DecisionKeys == {"action", "observation", "plan", "memory_context"}

\* the last n elements of s
LastN(s, n) == IF Len(s) <= n THEN s ELSE SubSeq(s, Len(s) - n + 1, Len(s))

----------------------------------------------------------------------------
(* Claims *)

\* C1 (as claimed): when a stage raises, the five belief-state fields are after
\* step() returns exactly what they were when step() was called.
C1_AtomicOnStageFailure ==
    \A a \in DOMAIN pc :
        (Returned(a) /\ ret[a] = None /\ StageRaised(a)) => context[a] = pre[a]

\* C2: the length of recent_actions never exceeds the capacity, whatever the
\* sequence of successful and failed calls and the length of the action results.
C2_RecentActionsBounded ==
    \A a \in DOMAIN pc : Len(context[a].recent_actions) <= RecentCap

\* C2 witness: a Decision with more tokens than the capacity was returned on top
\* of a non-empty buffer, and the buffer is exactly full.
C2_Witness ==
    \E a \in DOMAIN pc :
        /\ Returned(a) /\ IsDecision(ret[a])
        /\ Len(ret[a].items.action) > RecentCap
        /\ pre[a].recent_actions # <<>>
        /\ Len(context[a].recent_actions) = RecentCap

\* C3: step_counter starts at 0; a step that returns a Decision raises it by
\* exactly 1; every other step (a stage in progress, a return of None) leaves it
\* as it is; so it never decreases.
C3_StepCounterLaw ==
    /\ \A a \in DOMAIN pc : context[a].step_counter = 0
    /\ [][\A a \in DOMAIN pc :
            IF pc[a] # "idle" /\ pc'[a] = "idle" /\ IsDecision(ret'[a])
            THEN context'[a].step_counter = context[a].step_counter + 1
            ELSE context'[a].step_counter = context[a].step_counter]_vars

\* C3 witness: a call failed after its memory stage had returned, following a
\* committed tick, and the counter still stands at 1.
C3_Witness ==
    \E a \in DOMAIN pc :
        /\ Returned(a) /\ ret[a] = None /\ HasEvent(a, "return", "memory")
        /\ pre[a].step_counter = 1 /\ context[a].step_counter = 1

\* the reference policy for a string: read it character by character, close a
\* piece at each comma and at the end, keep a piece from its first to its last
\* character that is not white space, drop a piece with no such character
Trim(piece) ==
    LET solid == {i \in DOMAIN piece : piece[i] \notin Whitespace} IN
    IF solid = {} THEN <<>>
    ELSE SubSeq(piece, CHOOSE i \in solid : \A j \in solid : i <= j,
                       CHOOSE i \in solid : \A j \in solid : i >= j)

Emit(out, piece) == IF Trim(piece) = <<>> THEN out ELSE Append(out, Trim(piece))

RECURSIVE Scan(_, _, _)
Scan(cs, piece, out) ==
    IF cs = <<>> THEN Emit(out, piece)
    ELSE IF Head(cs) = "," THEN Scan(Tail(cs), <<>>, Emit(out, piece))
    ELSE Scan(Tail(cs), Append(piece, Head(cs)), out)

ReferenceTokens(raw) ==
    CASE raw.kind = "None" -> <<>>
      [] raw.kind = "str" -> IF raw.chars = <<>> THEN <<>> ELSE Scan(raw.chars, <<>>, <<>>)
      [] raw.kind \in {"list", "tuple"} -> raw.elems

\* C4: for None, every string and every list or tuple of tokens the action stage
\* returns, the Decision's action is what the reference policy gives: nothing for
\* None and "", the trimmed non-empty comma-separated pieces of a string in
\* order, the elements of a sequence as they are; "A, B ,C" gives A, B, C.
C4_NormalizationMatchesReference ==
    \A a \in DOMAIN pc :
        (Returned(a) /\ HasEvent(a, "return", "action")) =>
            /\ IsDecision(ret[a])
            /\ ret[a].items.action = ReferenceTokens(ValueOf(a, "return", "action"))
            /\ ValueOf(a, "return", "action") = SpecExample
                   => ret[a].items.action = <<<<"A">>, <<"B">>, <<"C">>>>

\* C4 witness: the string "A, B ,C" has been normalised to the three tokens A, B
\* and C.
C4_Witness ==
    \E a \in DOMAIN pc :
        /\ Returned(a) /\ IsDecision(ret[a])
        /\ ValueOf(a, "return", "action") = SpecExample
        /\ ret[a].items.action = <<<<"A">>, <<"B">>, <<"C">>>>

\* C4 second witness: a list token that holds a comma has been kept whole.
C4_WitnessList ==
    \E a \in DOMAIN pc :
        /\ Returned(a) /\ IsDecision(ret[a])
        /\ ValueOf(a, "return", "action") = PyList(<<<<"A", ",", "B">>>>)
        /\ ret[a].items.action = <<<<"A", ",", "B">>>>

\* a snapshot whose present keys hold what they are meant to hold
WellFormed(game_state) ==
    "visual" \in DOMAIN game_state => game_state["visual"].kind = "dict"

\* C5: with a snapshot from which any subset of the optional keys is absent (the
\* keys present being well formed), resolving the frame does not raise, and when
\* all four stages return (the action stage None or a list) the call returns a
\* Decision.
C5_MissingKeysDefaulted ==
    \A a \in DOMAIN pc :
        (log[a] # <<>> /\ WellFormed(ValueOf(a, "call", "step"))) =>
            /\ ~HasEvent(a, "raise", "resolve")
            /\ (Returned(a) /\ AllStagesReturned(a))
                => IsDecision(ret[a]) /\ DOMAIN ret[a].items = DecisionKeys
            /\ Returned(a) => AllStagesReturned(a)

\* C5 witness: a call on the empty snapshot has returned a Decision.
C5_Witness ==
    \E a \in DOMAIN pc :
        /\ Returned(a) /\ IsDecision(ret[a])
        /\ DOMAIN ValueOf(a, "call", "step") = {}

\* C6: a call that has returned gave back None when something raised, and
\* otherwise a dict with exactly the four keys action, observation, plan and
\* memory_context; while the call runs nothing has been returned.
C6_DecisionOrNone ==
    \A a \in DOMAIN pc :
        /\ Returned(a) =>
              IF \E i \in DOMAIN log[a] : log[a][i].ev = "raise"
              THEN ret[a] = None
              ELSE IsDecision(ret[a]) /\ DOMAIN ret[a].items = DecisionKeys
        /\ pc[a] # "idle" => ret[a] = Unset

\* C6 witness: a call whose planning stage raised has returned None, after a call
\* that returned a Decision.
C6_Witness ==
    \E a \in DOMAIN pc :
        /\ Returned(a) /\ ret[a] = None /\ HasEvent(a, "raise", "planning")
        /\ pre[a].step_counter >= 1

\* C7 (as claimed): a snapshot whose visual field is present but is not a mapping
\* never makes the call fail while the frame is resolved.
C7_MalformedVisualDefaulted ==
    \A a \in DOMAIN pc :
        (Returned(a) /\ "visual" \in DOMAIN ValueOf(a, "call", "step")
                     /\ ValueOf(a, "call", "step")["visual"].kind # "dict")
            => ~(ret[a] = None /\ HasEvent(a, "raise", "resolve"))

\* C8 (as claimed): whatever the action stage returned, when all four stages
\* returned the call gives back a Decision.
C8_CoercionNeverFails ==
    \A a \in DOMAIN pc :
        (Returned(a) /\ AllStagesReturned(a)) => IsDecision(ret[a])

\* C9: in a committed tick whose planning stage returned the plan it was given,
\* the Decision's plan and the stored current_plan both equal the plan before the
\* tick, while memory_context is this tick's memory, recent_actions has taken the
\* tick's tokens and step_counter has advanced by one.
C9_NoRevisionPath ==
    \A a \in DOMAIN pc :
        (/\ Returned(a) /\ IsDecision(ret[a])
         /\ ValueOf(a, "return", "planning") = ValueOf(a, "call", "planning")[2])
        => /\ ret[a].items.plan = pre[a].current_plan
           /\ context[a].current_plan = pre[a].current_plan
           /\ context[a].memory_context = ValueOf(a, "return", "memory")
           /\ context[a].step_counter = pre[a].step_counter + 1
           /\ context[a].recent_actions =
                  LastN(pre[a].recent_actions \o ret[a].items.action, RecentCap)

\* C9 witness: a committed tick kept a plan that was already set, with a new
\* memory and new tokens.
C9_Witness ==
    \E a \in DOMAIN pc :
        /\ Returned(a) /\ IsDecision(ret[a])
        /\ ValueOf(a, "return", "planning") = ValueOf(a, "call", "planning")[2]
        /\ pre[a].current_plan # None
        /\ context[a].memory_context # pre[a].memory_context
        /\ ret[a].items.action # <<>>

\* C10 (as claimed): once a call has returned a Decision (step_counter >= 1),
\* current_plan is not None.
C10_PlanPresentAfterFirstDecision ==
    \A a \in DOMAIN pc :
        context[a].step_counter >= 1 => context[a].current_plan # None

\* C10 (amended): current_plan is what the planning stage returned in the
\* current or last call, and what it was before that call when its planning stage
\* has not returned; it is None after a Decision exactly when that was returned.
C10_PlanIsLastPlanningReturn ==
    \A a \in DOMAIN pc :
        /\ context[a].current_plan =
               IF HasEvent(a, "return", "planning")
               THEN ValueOf(a, "return", "planning")
               ELSE pre[a].current_plan
        /\ (Returned(a) /\ IsDecision(ret[a]))
               => context[a].current_plan = ret[a].items.plan

\* C10 witness: a Decision has been returned and current_plan is None, the
\* planning stage having returned None.
C10_Witness ==
    \E a \in DOMAIN pc :
        /\ Returned(a) /\ IsDecision(ret[a])
        /\ context[a].step_counter >= 1
        /\ context[a].current_plan = None
        /\ pre[a].current_plan # None

----------------------------------------------------------------------------
(* MultiSpec: two Agent instances whose step() calls interleave stage by stage *)

TwoAgents == {1, 2}

MultiResults == {None, PyList(<<<<"U", "P">>, <<"U", "P">>>>)}

MultiBegin(a) ==
    context[ContextOf(a)].step_counter < MultiSteps /\ StepCall(a, EmptyDict)

MultiPerceive(a) == PerceptionReturns(a, [description |-> Text("d")], FALSE)

MultiRemember(a) == \E m \in {Text("m1"), Text("m2")} : MemoryReturns(a, m)

MultiPlan(a) == PlanningReturns(a, Opaque("plan", 1))

MultiAct(a) == \E r \in MultiResults : ActionReturns(a, r)

MultiNext ==
    \/ \E a \in TwoAgents : MultiBegin(a)
    \/ \E a \in TwoAgents : MultiPerceive(a)
    \/ \E a \in TwoAgents : PerceptionRaises(a)
    \/ \E a \in TwoAgents : MultiRemember(a)
    \/ \E a \in TwoAgents : MemoryRaises(a)
    \/ \E a \in TwoAgents : MultiPlan(a)
    \/ \E a \in TwoAgents : PlanningRaises(a)
    \/ \E a \in TwoAgents : MultiAct(a)
    \/ \E a \in TwoAgents : ActionRaises(a)

MultiInit == InitOver(TwoAgents)

MultiSpec == MultiInit /\ [][MultiNext]_vars

----------------------------------------------------------------------------
(* Claims, continued *)

\* C11 (as claimed): memory_context is never None, whatever the memory stage
\* returns.
C11_MemoryContextNeverNull ==
    \A a \in DOMAIN pc : context[a].memory_context # None

\* C12: a step of one instance's step() call, whether the call commits or fails,
\* leaves all five belief-state fields of every other instance as they were.
C12_InstancesIndependent ==
    [][\A b \in DOMAIN pc :
          (pc'[b] # pc[b] \/ log'[b] # log[b] \/ ret'[b] # ret[b])
              => \A a \in DOMAIN pc \ {b} : context'[a] = context[a]]_vars

\* C12 witness: one instance has committed a tick and the other, in the middle of
\* its first tick, is waiting for its planning stage with an empty buffer.
C12_Witness ==
    \E a, b \in DOMAIN pc :
        /\ a # b
        /\ Returned(a) /\ IsDecision(ret[a]) /\ context[a].step_counter = 1
        /\ pc[b] = "planning" /\ context[b].step_counter = 0
        /\ context[b].recent_actions = <<>>

\* C13: after a committed tick recent_actions is the last RecentCap elements of
\* what it held before the tick followed by the tick's tokens in order; from an
\* empty buffer the result "LEFT" leaves the one token LEFT and step_counter 1.
C13_AppendEvictsOldest ==
    \A a \in DOMAIN pc :
        (Returned(a) /\ IsDecision(ret[a])) =>
            /\ context[a].recent_actions =
                   LastN(pre[a].recent_actions \o ret[a].items.action, RecentCap)
            /\ (/\ pre[a] = InitialContext
                /\ ValueOf(a, "return", "action") = PyStr(<<"L", "E", "F", "T">>))
               => /\ context[a].recent_actions = <<<<"L", "E", "F", "T">>>>
                  /\ context[a].step_counter = 1

\* C13 witness: three tokens were appended to a full buffer, whose three oldest
\* entries are gone while the rest keep their order.
C13_Witness ==
    \E a \in DOMAIN pc :
        /\ Returned(a) /\ IsDecision(ret[a])
        /\ Len(pre[a].recent_actions) = RecentCap
        /\ ret[a].items.action = <<<<"A">>, <<"B">>, <<"C">>>>
        /\ context[a].recent_actions =
               SubSeq(pre[a].recent_actions, 4, RecentCap) \o ret[a].items.action

StageOrder == <<"perception", "memory", "planning", "action">>

\* the stages called in a call, in the order of their calls
StagesCalled(a) ==
    LET calls == SelectSeq(log[a], LAMBDA e : e.ev = "call" /\ e.stage \in Stages)
    IN [i \in 1..Len(calls) |-> calls[i].stage]

\* C14: the stages called in one call are perception, memory, planning, action
\* in that order, each once at most; a stage is called only after every earlier
\* stage has returned; once a stage has raised nothing more is called.
C14_StagesInOrderOnce ==
    \A a \in DOMAIN pc :
        /\ Len(StagesCalled(a)) <= 4
        /\ StagesCalled(a) = SubSeq(StageOrder, 1, Len(StagesCalled(a)))
        /\ \A i \in DOMAIN log[a], k \in 2..4 :
              (log[a][i].ev = "call" /\ log[a][i].stage = StageOrder[k]) =>
                  \A j \in 1..(k - 1) : \E h \in 1..(i - 1) :
                      log[a][h].ev = "return" /\ log[a][h].stage = StageOrder[j]
        /\ \A i, j \in DOMAIN log[a] :
              (log[a][i].ev = "raise" /\ i < j) => log[a][j].ev # "call"

\* C14 witness: the planning stage raised after perception and memory returned,
\* and the action stage was not called.
C14_Witness ==
    \E a \in DOMAIN pc :
        /\ Returned(a) /\ HasEvent(a, "raise", "planning")
        /\ StagesCalled(a) = <<"perception", "memory", "planning">>

\* C15: the memory stage is given the memory_context, current_plan and
\* recent_actions of before the tick; the planning stage this tick's memory and
\* the plan of before the tick; the action stage this tick's memory, this tick's
\* plan and the recent_actions of before the tick.
C15_StageArguments ==
    \A a \in DOMAIN pc :
        /\ HasEvent(a, "call", "memory") =>
              /\ ValueOf(a, "call", "memory")[1] = pre[a].memory_context
              /\ ValueOf(a, "call", "memory")[2] = pre[a].current_plan
              /\ ValueOf(a, "call", "memory")[3] = pre[a].recent_actions
        /\ HasEvent(a, "call", "planning") =>
              /\ ValueOf(a, "call", "planning")[1] = ValueOf(a, "return", "memory")
              /\ ValueOf(a, "call", "planning")[2] = pre[a].current_plan
        /\ HasEvent(a, "call", "action") =>
              /\ ValueOf(a, "call", "action")[1] = ValueOf(a, "return", "memory")
              /\ ValueOf(a, "call", "action")[2] = ValueOf(a, "return", "planning")
              /\ ValueOf(a, "call", "action")[6] = pre[a].recent_actions

\* C15 witness: a tick has committed new tokens on a non-empty buffer, with a
\* memory and a plan that differ from those of before the tick.
C15_Witness ==
    \E a \in DOMAIN pc :
        /\ Returned(a) /\ IsDecision(ret[a])
        /\ pre[a].recent_actions # <<>> /\ ret[a].items.action # <<>>
        /\ ValueOf(a, "return", "memory") # pre[a].memory_context
        /\ ValueOf(a, "return", "planning") # pre[a].current_plan
        /\ ValueOf(a, "return", "planning") # ValueOf(a, "return", "memory")

\* C16: while the memory, planning or action stage of a tick is running,
\* last_observation is the observation the perception stage returned in this tick.
C16_ObservationPersistedAtOnce ==
    \A a \in DOMAIN pc :
        pc[a] \in {"memory", "planning", "action"} =>
            context[a].last_observation = ValueOf(a, "return", "perception")[1]

\* C16 witness: the memory stage is running and last_observation has already
\* moved from the previous observation to a different one.
C16_Witness ==
    \E a \in DOMAIN pc :
        /\ pc[a] = "memory"
        /\ pre[a].last_observation # None
        /\ pre[a].last_observation # context[a].last_observation

\* C19: the memory stage is given exactly one observation entry, whose frame_id
\* is the snapshot's step_number when it has one and otherwise step_counter as it
\* stood when the call began.
C19_FrameId ==
    \A a \in DOMAIN pc :
        HasEvent(a, "call", "memory") =>
            LET entries == ValueOf(a, "call", "memory")[4]
                game_state == ValueOf(a, "call", "step")
            IN /\ Len(entries) = 1
               /\ entries[1].frame_id =
                      IF "step_number" \in DOMAIN game_state
                      THEN game_state["step_number"]
                      ELSE PyInt(pre[a].step_counter)

\* C19 witness: after one committed tick, a snapshot without step_number gave
\* the entry the frame_id 1.
C19_Witness ==
    \E a \in DOMAIN pc :
        /\ HasEvent(a, "call", "memory")
        /\ "step_number" \notin DOMAIN ValueOf(a, "call", "step")
        /\ pre[a].step_counter = 1
        /\ ValueOf(a, "call", "memory")[4][1].frame_id = PyInt(1)

\* C20: right after a call returns a Decision, its memory_context, plan and
\* observation are those of the context, its action is the whole normalised
\* result, however long, and that is what the tick appended to recent_actions.
C20_DecisionAgreesWithContext ==
    \A a \in DOMAIN pc :
        (Returned(a) /\ IsDecision(ret[a])) =>
            /\ ret[a].items.memory_context = context[a].memory_context
            /\ ret[a].items.plan = context[a].current_plan
            /\ ret[a].items.observation = context[a].last_observation
            /\ ret[a].items.action = ReferenceTokens(ValueOf(a, "return", "action"))
            /\ context[a].recent_actions =
                   LastN(pre[a].recent_actions \o ret[a].items.action, RecentCap)

\* C20 witness: a Decision holds more tokens than the deque does, on a buffer
\* that was empty.
C20_Witness ==
    \E a \in DOMAIN pc :
        /\ Returned(a) /\ IsDecision(ret[a])
        /\ pre[a].recent_actions = <<>>
        /\ Len(ret[a].items.action) > RecentCap
        /\ Len(context[a].recent_actions) = RecentCap

\* the screenshot under visual, None when there is none
ScreenshotOf(game_state) ==
    IF "visual" \in DOMAIN game_state /\ game_state["visual"].kind = "dict"
    THEN Get(game_state["visual"].items, "screenshot", None)
    ELSE None

\* C17 (as claimed): the frame given to the perception and action stages is the
\* top-level frame field whenever the snapshot has one that is not null, otherwise
\* the screenshot under visual, otherwise None.
C17_FramePrefersTopLevel ==
    \A a \in DOMAIN pc :
        HasEvent(a, "call", "perception") =>
            LET game_state == ValueOf(a, "call", "step")
                expected ==
                    IF "frame" \in DOMAIN game_state /\ game_state["frame"] # None
                    THEN game_state["frame"]
                    ELSE ScreenshotOf(game_state)
            IN /\ ValueOf(a, "call", "perception")[1] = expected
               /\ HasEvent(a, "call", "action") =>
                      ValueOf(a, "call", "action")[4] = expected

\* C17 (amended): the frame given to the perception and action stages is the
\* top-level frame field when it is present and truthy, otherwise the screenshot
\* under visual, otherwise None; with frame and visual both absent the stages
\* are called with None.
C17_FramePrefersTruthyTopLevel ==
    \A a \in DOMAIN pc :
        log[a] # <<>> =>
            LET game_state == ValueOf(a, "call", "step")
                top == Get(game_state, "frame", None)
                expected == IF Truthy(top) THEN top ELSE ScreenshotOf(game_state)
            IN /\ HasEvent(a, "call", "perception") =>
                      ValueOf(a, "call", "perception")[1] = expected
               /\ HasEvent(a, "call", "action") =>
                      ValueOf(a, "call", "action")[4] = expected
               /\ DOMAIN game_state \cap {"frame", "visual"} = {} =>
                      /\ HasEvent(a, "call", "perception")
                      /\ ValueOf(a, "call", "perception")[1] = None

\* C17 witness: the snapshot has an empty frame and a screenshot under visual,
\* and the action stage was called with the screenshot.
C17_Witness ==
    \E a \in DOMAIN pc :
        /\ HasEvent(a, "call", "action")
        /\ "frame" \in DOMAIN ValueOf(a, "call", "step")
        /\ ValueOf(a, "call", "step")["frame"] = PyStr(<<>>)
        /\ ValueOf(a, "call", "action")[4] = Image(2)

\* the mapping holds the image, at the top or one level down
HoldsImage(state_data, image) ==
    \E k \in DOMAIN state_data :
        \/ state_data[k] = image
        \/ /\ state_data[k].kind = "dict"
           /\ \E j \in DOMAIN state_data[k].items : state_data[k].items[j] = image

\* C18 (as claimed): the residual state given to the stages has no frame key,
\* keeps every other key of the snapshot, and does not hold the image that was
\* resolved as this tick's frame.
C18_ResidualHasNoFrame ==
    \A a \in DOMAIN pc :
        HasEvent(a, "call", "perception") =>
            LET game_state == ValueOf(a, "call", "step")
                frame == ValueOf(a, "call", "perception")[1]
                state_data == ValueOf(a, "call", "perception")[2]
            IN /\ DOMAIN state_data = DOMAIN game_state \ {"frame"}
               /\ frame # None => ~HoldsImage(state_data, frame)

====
